---- MODULE Spec2Model ----
(***************************************************************************)
(* A model of SummarizableObject                                           *)
(* (packages/runtime/summarizable-object/src/summarizableObject.ts): a     *)
(* Map<string, Jsonable> that is written by set, read by get, serialised   *)
(* by snapshot into a one-blob tree, and populated by loadCore from the    *)
(* blob the storage service returns.                                       *)
(*                                                                         *)
(* Text is a sequence of one-character strings.  The JavaScript built-ins  *)
(* the class calls (Map, property assignment on a plain object,            *)
(* JSON.stringify, JSON.parse, Object.entries) are modelled by what        *)
(* ECMAScript specifies for them, on the alphabet Ascii below: numbers are *)
(* non-negative integers, strings hold no character that needs escaping,   *)
(* and the literals true and false are not in the alphabet.                *)
(***************************************************************************)
EXTENDS Integers, Sequences, FiniteSets, TLC

\* ------------------------------------------------------------------ bounds

\* The number of set calls in one behaviour.
MaxSets == 2

\* The number of SummarizableObject instances constructed in one behaviour.
MaxInstances == 2

\* ------------------------------------------------------------- JS values

\* A JavaScript value: t is its type tag, n a number's value, s a string's
\* characters, kids the elements of an array (key <<>>) or the own
\* enumerable properties of an object, in property order.
JNull == [t |-> "null", n |-> 0, s |-> <<>>, kids |-> <<>>]

JUndefined == [t |-> "undefined", n |-> 0, s |-> <<>>, kids |-> <<>>]

JFunction == [t |-> "function", n |-> 0, s |-> <<>>, kids |-> <<>>]

JNum(k) == [t |-> "number", n |-> k, s |-> <<>>, kids |-> <<>>]

JStr(chars) == [t |-> "string", n |-> 0, s |-> chars, kids |-> <<>>]

JArr(elems) == [t |-> "array", n |-> 0, s |-> <<>>, kids |-> elems]

JObj(props) == [t |-> "object", n |-> 0, s |-> <<>>, kids |-> props]

Entry(k, v) == [key |-> k, value |-> v]

Elem(v) == [key |-> <<>>, value |-> v]

\* Whether v is in the JSON value model: null, number, string, array or
\* string-keyed object, recursively (the Jsonable type of set's parameter).
RECURSIVE IsJsonable(_)
IsJsonable(v) ==
    /\ v.t \in {"null", "number", "string", "array", "object"}
    /\ \A i \in 1..Len(v.kids) : IsJsonable(v.kids[i].value)

\* ------------------------------------------------------------- characters

Digits == <<"0", "1", "2", "3", "4", "5", "6", "7", "8", "9">>

DigitChars == {Digits[i] : i \in 1..10}

DigitValue(c) == CHOOSE d \in 0..9 : Digits[d + 1] = c

\* The ASCII codes of the characters the model's texts are written in.
Ascii ==
    [c \in {"{", "}", "[", "]", "\"", ":", ",", "_", "a", "b", "l", "n",
            "o", "p", "r", "t", "u"} \cup DigitChars |->
        CASE c = "{" -> 123 [] c = "}" -> 125 [] c = "[" -> 91
          [] c = "]" -> 93 [] c = "\"" -> 34 [] c = ":" -> 58
          [] c = "," -> 44 [] c = "_" -> 95 [] c = "a" -> 97
          [] c = "b" -> 98 [] c = "l" -> 108 [] c = "n" -> 110
          [] c = "o" -> 111 [] c = "p" -> 112 [] c = "r" -> 114
          [] c = "t" -> 116 [] c = "u" -> 117
          [] OTHER -> 48 + DigitValue(c)]

CharOf(code) == CHOOSE c \in DOMAIN Ascii : Ascii[c] = code

\* The decimal text of a non-negative integer (Number::toString).
RECURSIVE NumToText(_)
NumToText(k) ==
    IF k < 10 THEN <<Digits[k + 1]>>
    ELSE NumToText(k \div 10) \o <<Digits[(k % 10) + 1]>>

RECURSIVE TextToNum(_)
TextToNum(chars) ==
    IF chars = <<>> THEN 0
    ELSE 10 * TextToNum(SubSeq(chars, 1, Len(chars) - 1))
         + DigitValue(chars[Len(chars)])

\* Whether a property key is an array index (a canonical numeric string):
\* such keys come first, in ascending order, among an object's own keys.
IsArrayIndex(key) ==
    /\ key # <<>>
    /\ \A i \in 1..Len(key) : key[i] \in DigitChars
    /\ (Len(key) > 1 => key[1] # "0")

ProtoKey == <<"_", "_", "p", "r", "o", "t", "o", "_", "_">>

\* ------------------------------------------------- plain object properties

HasKey(props, key) == \E i \in 1..Len(props) : props[i].key = key

IndexOfKey(props, key) == CHOOSE i \in 1..Len(props) : props[i].key = key

InsertAt(seq, pos, x) ==
    SubSeq(seq, 1, pos - 1) \o <<x>> \o SubSeq(seq, pos, Len(seq))

\* CreateDataProperty on an ordinary object, whose own keys are kept in
\* OrdinaryOwnPropertyKeys order: array indices ascending, then the other
\* string keys in the order they were created.  An existing key keeps its
\* place and takes the new value.
DefineProp(props, key, value) ==
    IF HasKey(props, key)
    THEN [props EXCEPT ![IndexOfKey(props, key)].value = value]
    ELSE IF IsArrayIndex(key)
    THEN LET before == {i \in 1..Len(props) :
                           /\ IsArrayIndex(props[i].key)
                           /\ TextToNum(props[i].key) < TextToNum(key)}
         IN  InsertAt(props, Cardinality(before) + 1, Entry(key, value))
    ELSE Append(props, Entry(key, value))

\* contentsBlob[key] = value on the object literal {}: the key "__proto__"
\* reaches the setter inherited from Object.prototype, which creates no own
\* property; every other key is created or overwritten.
AssignProp(props, key, value) ==
    IF key = ProtoKey THEN props ELSE DefineProp(props, key, value)

\* ---------------------------------------------------------- JSON.stringify

Serializable(v) == v.t \notin {"undefined", "function"}

RECURSIVE Stringify(_)
RECURSIVE JoinElems(_)
RECURSIVE JoinProps(_)

\* SerializeJSONArray's elements: undefined and functions are written null.
JoinElems(elems) ==
    IF elems = <<>> THEN <<>>
    ELSE (IF Serializable(elems[1].value) THEN Stringify(elems[1].value)
          ELSE <<"n", "u", "l", "l">>)
         \o (IF Len(elems) > 1 THEN <<",">> \o JoinElems(Tail(elems))
             ELSE <<>>)

\* SerializeJSONObject's members, for properties already filtered.
JoinProps(props) ==
    IF props = <<>> THEN <<>>
    ELSE <<"\"">> \o props[1].key \o <<"\"", ":">>
         \o Stringify(props[1].value)
         \o (IF Len(props) > 1 THEN <<",">> \o JoinProps(Tail(props))
             ELSE <<>>)

\* JSON.stringify(v): the text of v; a property whose value is undefined or
\* a function is left out of its object.  <<>> stands for the result
\* undefined (v itself is undefined or a function).
Stringify(v) ==
    CASE v.t = "null" -> <<"n", "u", "l", "l">>
      [] v.t = "number" -> NumToText(v.n)
      [] v.t = "string" -> <<"\"">> \o v.s \o <<"\"">>
      [] v.t = "array" -> <<"[">> \o JoinElems(v.kids) \o <<"]">>
      [] v.t = "object" ->
            <<"{">>
            \o JoinProps(SelectSeq(v.kids, LAMBDA p : Serializable(p.value)))
            \o <<"}">>
      [] OTHER -> <<>>

\* -------------------------------------------------------------- JSON.parse

ParseFail == [ok |-> FALSE, val |-> JNull, rest |-> <<>>]

ParseOk(v, rest) == [ok |-> TRUE, val |-> v, rest |-> rest]

StartsWith(text, prefix) ==
    /\ Len(text) >= Len(prefix)
    /\ SubSeq(text, 1, Len(prefix)) = prefix

\* A JSON string at the head of text (text[1] is the opening quote).
ParseString(text) ==
    LET body == Tail(text)
        quotes == {i \in 1..Len(body) : body[i] = "\""}
    IN  IF quotes = {} THEN ParseFail
        ELSE LET j == CHOOSE i \in quotes : \A k \in quotes : i <= k
             IN  ParseOk(JStr(SubSeq(body, 1, j - 1)),
                         SubSeq(body, j + 1, Len(body)))

\* A JSON number at the head of text (text[1] is a digit): 0, or a digit
\* run that does not start with 0.
ParseNumber(text) ==
    IF text[1] = "0" THEN ParseOk(JNum(0), Tail(text))
    ELSE LET n == CHOOSE k \in 1..Len(text) :
                      /\ \A i \in 1..k : text[i] \in DigitChars
                      /\ (k < Len(text) => text[k + 1] \notin DigitChars)
         IN  ParseOk(JNum(TextToNum(SubSeq(text, 1, n))),
                     SubSeq(text, n + 1, Len(text)))

RECURSIVE ParseValue(_)
RECURSIVE ParseElems(_, _)
RECURSIVE ParseMembers(_, _)

\* The elements of an array after "[" or ",": a value, then "," or "]".
ParseElems(text, acc) ==
    LET r == ParseValue(text)
    IN  IF ~r.ok \/ r.rest = <<>> THEN ParseFail
        ELSE IF Head(r.rest) = ","
        THEN ParseElems(Tail(r.rest), Append(acc, Elem(r.val)))
        ELSE IF Head(r.rest) = "]"
        THEN ParseOk(JArr(Append(acc, Elem(r.val))), Tail(r.rest))
        ELSE ParseFail

\* The members of an object after "{" or ",": a string, ":", a value, then
\* "," or "}".  A repeated key takes the later value (CreateDataProperty).
ParseMembers(text, acc) ==
    IF text = <<>> \/ Head(text) # "\"" THEN ParseFail
    ELSE LET k == ParseString(text)
         IN  IF ~k.ok \/ k.rest = <<>> \/ Head(k.rest) # ":" THEN ParseFail
             ELSE LET r == ParseValue(Tail(k.rest))
                      props == DefineProp(acc, k.val.s, r.val)
                  IN  IF ~r.ok \/ r.rest = <<>> THEN ParseFail
                      ELSE IF Head(r.rest) = ","
                      THEN ParseMembers(Tail(r.rest), props)
                      ELSE IF Head(r.rest) = "}"
                      THEN ParseOk(JObj(props), Tail(r.rest))
                      ELSE ParseFail

ParseValue(text) ==
    IF text = <<>> THEN ParseFail
    ELSE CASE Head(text) = "n" ->
                 IF StartsWith(text, <<"n", "u", "l", "l">>)
                 THEN ParseOk(JNull, SubSeq(text, 5, Len(text)))
                 ELSE ParseFail
           [] Head(text) \in DigitChars -> ParseNumber(text)
           [] Head(text) = "\"" -> ParseString(text)
           [] Head(text) = "[" ->
                 IF Len(text) > 1 /\ text[2] = "]"
                 THEN ParseOk(JArr(<<>>), SubSeq(text, 3, Len(text)))
                 ELSE ParseElems(Tail(text), <<>>)
           [] Head(text) = "{" ->
                 IF Len(text) > 1 /\ text[2] = "}"
                 THEN ParseOk(JObj(<<>>), SubSeq(text, 3, Len(text)))
                 ELSE ParseMembers(Tail(text), <<>>)
           [] OTHER -> ParseFail

\* JSON.parse(text): the value, or a thrown SyntaxError (ok = FALSE) when
\* text is not exactly one JSON value.
JsonParse(text) ==
    LET r == ParseValue(text)
    IN  IF r.ok /\ r.rest = <<>> THEN r ELSE ParseFail

\* Object.entries(v) for a parsed JSON value: an object's own properties, an
\* array's elements and a string's characters under their indices, nothing
\* for a number.  Object.entries(null) throws a TypeError.
ObjectEntries(v) ==
    CASE v.t = "object" -> v.kids
      [] v.t = "array" ->
            [i \in 1..Len(v.kids) |->
                Entry(NumToText(i - 1), v.kids[i].value)]
      [] v.t = "string" ->
            [i \in 1..Len(v.s) |-> Entry(NumToText(i - 1), JStr(<<v.s[i]>>))]
      [] OTHER -> <<>>

\* -------------------------------------------------- transport encoding

B64 ==
    <<"A", "B", "C", "D", "E", "F", "G", "H", "I", "J", "K", "L", "M",
      "N", "O", "P", "Q", "R", "S", "T", "U", "V", "W", "X", "Y", "Z",
      "a", "b", "c", "d", "e", "f", "g", "h", "i", "j", "k", "l", "m",
      "n", "o", "p", "q", "r", "s", "t", "u", "v", "w", "x", "y", "z",
      "0", "1", "2", "3", "4", "5", "6", "7", "8", "9", "+", "/">>

B64Chars == {B64[i] : i \in 1..Len(B64)}

B64Index(c) == CHOOSE i \in 0..63 : B64[i + 1] = c

\* The UTF-8 bytes of a text of the alphabet (all ASCII).
Utf8Bytes(text) == [i \in 1..Len(text) |-> Ascii[text[i]]]

\* The character of a decoded byte; "?" stands for every character outside
\* the alphabet.
CharOfByte(b) ==
    IF \E c \in DOMAIN Ascii : Ascii[c] = b THEN CharOf(b) ELSE "?"

\* Base64 of a byte sequence: three bytes to four characters, "=" padding.
RECURSIVE ToBase64(_)
ToBase64(bytes) ==
    IF bytes = <<>> THEN <<>>
    ELSE IF Len(bytes) = 1
    THEN <<B64[(bytes[1] \div 4) + 1], B64[((bytes[1] % 4) * 16) + 1],
           "=", "=">>
    ELSE IF Len(bytes) = 2
    THEN <<B64[(bytes[1] \div 4) + 1],
           B64[((bytes[1] % 4) * 16) + (bytes[2] \div 16) + 1],
           B64[((bytes[2] % 16) * 4) + 1], "=">>
    ELSE <<B64[(bytes[1] \div 4) + 1],
           B64[((bytes[1] % 4) * 16) + (bytes[2] \div 16) + 1],
           B64[((bytes[2] % 16) * 4) + (bytes[3] \div 64) + 1],
           B64[(bytes[3] % 64) + 1]>>
         \o ToBase64(SubSeq(bytes, 4, Len(bytes)))

\* Whether raw is base64 text: whole quads of alphabet characters, the last
\* quad ending in at most two "=".
IsBase64(raw) ==
    /\ Len(raw) % 4 = 0
    /\ \A i \in 1..Len(raw) :
          \/ raw[i] \in B64Chars
          \/ /\ raw[i] = "="
             /\ i >= Len(raw) - 1
             /\ (i = Len(raw) - 1 => raw[Len(raw)] = "=")

RECURSIVE DecodeQuads(_)
DecodeQuads(raw) ==
    IF raw = <<>> THEN <<>>
    ELSE LET a == B64Index(raw[1])
             b == B64Index(raw[2])
         IN  IF raw[3] = "=" THEN <<(a * 4) + (b \div 16)>>
             ELSE LET c == B64Index(raw[3])
                  IN  IF raw[4] = "="
                      THEN <<(a * 4) + (b \div 16),
                             ((b % 16) * 16) + (c \div 4)>>
                      ELSE <<(a * 4) + (b \div 16),
                             ((b % 16) * 16) + (c \div 4),
                             ((c % 4) * 64) + B64Index(raw[4])>>
                           \o DecodeQuads(SubSeq(raw, 5, Len(raw)))

\* fromBase64ToUtf8(raw): the text raw encodes; ok = FALSE when raw is not
\* base64 text.
FromBase64ToUtf8(raw) ==
    IF ~IsBase64(raw) THEN [ok |-> FALSE, text |-> <<>>]
    ELSE LET bytes == DecodeQuads(raw)
         IN  [ok |-> TRUE,
              text |-> [i \in 1..Len(bytes) |-> CharOfByte(bytes[i])]]

\* ---------------------------------------------------- Map<string, Jsonable>

\* A Map.prototype.set that adds an entry whether or not the key is held.
MapSetAppends(map, key, value) == Append(map, Entry(key, value))

\* Map.prototype.set: an existing key keeps its place in the iteration order
\* and takes the new value; a new key goes last.
MapSet(map, key, value) ==
    IF HasKey(map, key)
    THEN [map EXCEPT ![IndexOfKey(map, key)].value = value]
    ELSE Append(map, Entry(key, value))

\* Map.prototype.get: the value, or undefined for a key the map lacks.
MapGet(map, key) ==
    IF HasKey(map, key) THEN map[IndexOfKey(map, key)].value ELSE JUndefined

MapKeys(map) == {map[i].key : i \in 1..Len(map)}

\* ------------------------------------------------------------- the inputs

KeyA == <<"a">>

KeyB == <<"b">>

KeyOne == <<"1">>

\* The keys set is called with: two ordinary keys, an array index and the
\* name of Object.prototype's accessor.
Keys == {KeyA, KeyB, KeyOne, ProtoKey}

Nested == JObj(<<Entry(KeyA, JArr(<<Elem(JStr(<<"b">>))>>))>>)

\* The values set is called with: a number, an object holding an array of a
\* string, and a function (which is not JSON-representable).
Values == {JNum(3), Nested, JFunction}

\* The calls of set: every key with the number, and the first key with
\* every value.
SetInputs ==
    {Entry(key, JNum(3)) : key \in Keys}
    \cup {Entry(KeyA, value) : value \in Values}

\* Texts a storage blob may hold that are not the JSON text of an object.
CorruptTexts ==
    {<<"{", "\"", "a", "\"", ":", "3", ",", "}">>,
     <<"[", "3", "]">>,
     <<"\"", "a", "b", "\"">>,
     <<"3">>,
     <<"n", "u", "l", "l">>}

\* Blob contents that are not base64 text.
NotBase64 == {<<"e", "w", "=", "a">>}

Messages == {"op"}

PendingLists == {<<>>, <<"op">>}

\* ---------------------------------------------------------------- the state

snapshotFileName == <<"h", "e", "a", "d", "e", "r">>

NoTree == [id |-> "none", entries |-> <<>>]

NoBlob == [present |-> FALSE, content |-> <<>>, origin |-> "none"]

\* The outcome of a call: a returned value, a thrown error, or a promise
\* that is still pending.
Returned(v) == [status |-> "return", value |-> v, error |-> ""]

Threw(e) == [status |-> "throw", value |-> JUndefined, error |-> e]

Pending == [status |-> "pending", value |-> JUndefined, error |-> ""]

VARIABLES
    data,        \* this.data: the Map's entries, in iteration order
    dirtyFlag,   \* whether the object has been marked dirty
    signals,     \* the dirty notifications the runtime has received
    submitted,   \* the ops the object has submitted to the op log
    loadPc,      \* loadCore: "idle", "reading" (awaiting storage.read),
                 \* "done" or "failed"
    tree,        \* the ITree the last snapshot() returned
    storage,     \* the blob the storage service holds under "header"
    ret,         \* the outcome of the last call
    instance,    \* the number of the object under observation
    snapshotOf,  \* history: the Map's entries when tree was produced
    storedOf,    \* history: the Map's entries the stored blob was taken of
    loadedText,  \* history: the text loadCore handed to JSON.parse
    loadedOf,    \* history: the Map's entries that text was the snapshot of
    snaps,       \* history: the snapshots taken since the Map last changed,
                 \* counted up to two
    setCalls,    \* history: the set calls made on this object
    firstSet,    \* history: this object's keys, in the order first set
    lastValue,   \* history: for each key set or loaded on this object, the
                 \* value of the last set or load of it
    notified     \* history: the last call was onConnect, registerCore or onDisconnect

vars ==
    <<data, dirtyFlag, signals, submitted, loadPc, tree, storage, ret,
      instance, snapshotOf, storedOf, loadedText, loadedOf, snaps, setCalls,
      firstSet, lastValue, notified>>

\* new SummarizableObject(id, runtime, attributes): an empty Map.
Init ==
    /\ data = <<>>
    /\ dirtyFlag = FALSE
    /\ signals = 0
    /\ submitted = <<>>
    /\ loadPc = "idle"
    /\ tree = NoTree
    /\ storage = NoBlob
    /\ ret = Returned(JUndefined)
    /\ instance = 1
    /\ snapshotOf = <<>>
    /\ storedOf = <<>>
    /\ loadedText = <<>>
    /\ loadedOf = <<>>
    /\ snaps = 0
    /\ setCalls = 0
    /\ firstSet = <<>>
    /\ lastValue = {}
    /\ notified = FALSE

\* A further object is constructed (a document is opened again); the storage
\* service and the runtime's counters stay.
NewObject ==
    /\ notified' = FALSE
    /\ instance < MaxInstances
    /\ instance' = instance + 1
    /\ data' = <<>>
    /\ dirtyFlag' = FALSE
    /\ loadPc' = "idle"
    /\ snaps' = 0
    /\ setCalls' = 0
    /\ firstSet' = <<>>
    /\ lastValue' = {}
    /\ loadedText' = <<>>
    /\ loadedOf' = <<>>
    /\ tree' = NoTree
    /\ snapshotOf' = <<>>
    /\ ret' = Returned(JUndefined)
    /\ UNCHANGED <<signals, submitted, storage, storedOf>>

\* History: the keys in the order they were first set, after the keys of
\* more are set in their order.
RECURSIVE FirstSetOrder(_, _)
FirstSetOrder(order, more) ==
    IF more = <<>> THEN order
    ELSE FirstSetOrder(
             IF \E i \in 1..Len(order) : order[i] = more[1] THEN order
             ELSE Append(order, more[1]),
             Tail(more))

\* History: the last values, after the entries of more are written in
\* their order.
RECURSIVE Written(_, _)
Written(last, more) ==
    IF more = <<>> THEN last
    ELSE Written({e \in last : e.key # more[1].key} \cup {more[1]},
                 Tail(more))

\* A get that creates an entry for a key the Map lacks.
GetCreates(key) ==
    /\ notified' = FALSE
    /\ ret' = Returned(MapGet(data, key))
    /\ data' = IF key \in MapKeys(data) THEN data
               ELSE MapSet(data, key, JUndefined)
    /\ UNCHANGED <<dirtyFlag, signals, submitted, loadPc, tree,
                   storage, instance, snapshotOf, storedOf, loadedText, loadedOf,
                   snaps, setCalls, firstSet, lastValue>>

\* get(key)
Get(key) ==
    /\ notified' = FALSE
    /\ ret' = Returned(MapGet(data, key))
    /\ UNCHANGED <<data, dirtyFlag, signals, submitted, loadPc, tree,
                   storage, instance, snapshotOf, storedOf, loadedText, loadedOf,
                   snaps, setCalls, firstSet, lastValue>>

\* SharedObject.dirty(): marks the object dirty and notifies the runtime.
Dirty ==
    /\ dirtyFlag' = TRUE
    /\ signals' = signals + 1

\* A set that stores the value and does not call dirty().
SetWithoutDirty(key, value) ==
    /\ notified' = FALSE
    /\ signals < MaxSets
    /\ data' = MapSet(data, key, value)
    /\ ret' = Returned(JUndefined)
    /\ snaps' = 0
    /\ setCalls' = setCalls + 1
    /\ firstSet' = FirstSetOrder(firstSet, <<key>>)
    /\ lastValue' = Written(lastValue, <<Entry(key, value)>>)
    /\ UNCHANGED <<dirtyFlag, signals, submitted, loadPc, tree, storage,
                   instance, snapshotOf, storedOf, loadedText, loadedOf>>

\* A set that also submits the change to the op log.
SetSubmitsOp(key, value) ==
    /\ notified' = FALSE
    /\ signals < MaxSets
    /\ data' = MapSet(data, key, value)
    /\ Dirty
    /\ submitted' = Append(submitted, Entry(key, value))
    /\ ret' = Returned(JUndefined)
    /\ snaps' = 0
    /\ setCalls' = setCalls + 1
    /\ firstSet' = FirstSetOrder(firstSet, <<key>>)
    /\ lastValue' = Written(lastValue, <<Entry(key, value)>>)
    /\ UNCHANGED <<loadPc, tree, storage, instance, snapshotOf, storedOf,
                   loadedText, loadedOf>>

\* set(key, value)
Set(key, value) ==
    /\ notified' = FALSE
    /\ signals < MaxSets
    /\ data' = MapSet(data, key, value)
    /\ Dirty
    /\ ret' = Returned(JUndefined)
    /\ snaps' = 0
    /\ setCalls' = setCalls + 1
    /\ firstSet' = FirstSetOrder(firstSet, <<key>>)
    /\ lastValue' = Written(lastValue, <<Entry(key, value)>>)
    /\ UNCHANGED <<submitted, loadPc, tree, storage, instance, snapshotOf,
                   storedOf, loadedText, loadedOf>>

\* A contentsBlob filled from the Map's last entry to its first.
RECURSIVE ContentsBlobReversed(_, _)
ContentsBlobReversed(map, props) ==
    IF map = <<>> THEN props
    ELSE ContentsBlobReversed(
             SubSeq(map, 1, Len(map) - 1),
             AssignProp(props, map[Len(map)].key, map[Len(map)].value))

\* contentsBlob after this.data.forEach has assigned every entry to it.
RECURSIVE ContentsBlob(_, _)
ContentsBlob(map, props) ==
    IF map = <<>> THEN props
    ELSE ContentsBlob(Tail(map),
                      AssignProp(props, map[1].key, map[1].value))

\* A tree with one blob entry for each entry of the Map.
SnapshotTreePerKey(map) ==
    [id |-> "null",
     entries |->
        [i \in 1..Len(map) |->
            [mode |-> "File",
             path |-> map[i].key,
             type |-> "Blob",
             value |->
                [contents |-> Stringify(map[i].value),
                 encoding |-> "utf-8"]]]]

\* A tree whose blob is null when the Map has no entries.
SnapshotTreeNullWhenEmpty(map) ==
    [id |-> "null",
     entries |->
        <<[mode |-> "File",
           path |-> snapshotFileName,
           type |-> "Blob",
           value |->
              [contents |->
                  Stringify(IF map = <<>> THEN JNull
                            ELSE JObj(ContentsBlob(map, <<>>))),
               encoding |-> "utf-8"]]>>]

\* The ITree snapshot() builds.
SnapshotTree(map) ==
    [id |-> "null",
     entries |->
        <<[mode |-> "File",
           path |-> snapshotFileName,
           type |-> "Blob",
           value |->
              [contents |-> Stringify(JObj(ContentsBlob(map, <<>>))),
               encoding |-> "utf-8"]]>>]

\* A snapshot that empties the Map once it has serialised it.
SnapshotDrains ==
    /\ notified' = FALSE
    /\ tree' = SnapshotTree(data)
    /\ data' = <<>>
    /\ ret' = Returned(JUndefined)
    /\ snapshotOf' = data
    /\ snaps' = IF snaps = 0 THEN 1 ELSE 2
    /\ UNCHANGED <<dirtyFlag, signals, submitted, loadPc, storage,
                   instance, storedOf, loadedText, loadedOf, setCalls,
                   firstSet, lastValue>>

\* snapshot()
Snapshot ==
    /\ notified' = FALSE
    /\ tree' = SnapshotTree(data)
    /\ ret' = Returned(JUndefined)
    /\ snapshotOf' = data
    /\ snaps' = IF snaps = 0 THEN 1 ELSE 2
    /\ UNCHANGED <<data, dirtyFlag, signals, submitted, loadPc, storage,
                   instance, storedOf, loadedText, loadedOf, setCalls, firstSet, lastValue>>

\* The runtime uploads the blob of the last snapshot; the storage service
\* keeps it transport-encoded.
Upload ==
    /\ UNCHANGED notified
    /\ tree # NoTree
    /\ storage' =
          [present |-> TRUE,
           content |-> ToBase64(Utf8Bytes(tree.entries[1].value.contents)),
           origin |-> "snapshot"]
    /\ storedOf' = snapshotOf
    /\ ret' = Returned(JUndefined)
    /\ UNCHANGED <<data, dirtyFlag, signals, submitted, loadPc, tree,
                   instance, snapshotOf, loadedText, loadedOf, snaps, setCalls, firstSet, lastValue>>

\* Before anything is uploaded, the storage service holds a blob that is not
\* the snapshot of an object.
Corrupt(content) ==
    /\ UNCHANGED notified
    /\ ~storage.present
    /\ storage' =
          [present |-> TRUE, content |-> content, origin |-> "corrupt"]
    /\ storedOf' = <<>>
    /\ ret' = Returned(JUndefined)
    /\ UNCHANGED <<data, dirtyFlag, signals, submitted, loadPc, tree,
                   instance, snapshotOf, loadedText, loadedOf, snaps, setCalls, firstSet, lastValue>>

\* loadCore up to its await: storage.read(snapshotFileName) is called.
LoadStart ==
    /\ notified' = FALSE
    /\ loadPc = "idle"
    /\ loadPc' = "reading"
    /\ ret' = Pending
    /\ UNCHANGED <<data, dirtyFlag, signals, submitted, tree, storage,
                   instance, snapshotOf, storedOf, loadedText, loadedOf, snaps,
                   setCalls, firstSet, lastValue>>

ReadError == "storage.read rejected"

\* storage.read rejects: the blob is missing, or the read was cancelled or
\* timed out.
LoadReject ==
    /\ notified' = FALSE
    /\ loadPc = "reading"
    /\ loadPc' = "failed"
    /\ ret' = Threw(ReadError)
    /\ UNCHANGED <<data, dirtyFlag, signals, submitted, tree, storage,
                   instance, snapshotOf, storedOf, loadedText, loadedOf, snaps,
                   setCalls, firstSet, lastValue>>

\* A loop that sets the parsed entries from the last to the first.
RECURSIVE MapSetAllReversed(_, _)
MapSetAllReversed(map, entries) ==
    IF entries = <<>> THEN map
    ELSE MapSetAllReversed(
             MapSet(map, entries[Len(entries)].key,
                    entries[Len(entries)].value),
             SubSeq(entries, 1, Len(entries) - 1))

\* The Map after loadCore's loop has set every parsed entry, in order.
RECURSIVE MapSetAll(_, _)
MapSetAll(map, entries) ==
    IF entries = <<>> THEN map
    ELSE MapSetAll(MapSet(map, entries[1].key, entries[1].value),
                   Tail(entries))

\* A loadCore that sets the first parsed entry and stops.
LoadCoreFirstEntry(map, rawContent) ==
    LET decoded == FromBase64ToUtf8(rawContent)
        parsed == JsonParse(decoded.text)
        entries == ObjectEntries(parsed.val)
    IN  IF ~decoded.ok
        THEN [threw |-> "invalid base64", map |-> map, text |-> <<>>]
        ELSE IF ~parsed.ok
        THEN [threw |-> "SyntaxError", map |-> map, text |-> decoded.text]
        ELSE IF parsed.val.t = "null"
        THEN [threw |-> "TypeError", map |-> map, text |-> decoded.text]
        ELSE [threw |-> "",
              map |-> MapSetAll(map, IF entries = <<>> THEN <<>>
                                     ELSE <<entries[1]>>),
              text |-> decoded.text]

\* loadCore after its await, run to its end: decode, parse, then set every
\* entry of the parsed value.  threw names the error of a rejected load.
LoadCore(map, rawContent) ==
    LET decoded == FromBase64ToUtf8(rawContent)
        parsed == JsonParse(decoded.text)
    IN  IF ~decoded.ok
        THEN [threw |-> "invalid base64", map |-> map, text |-> <<>>]
        ELSE IF ~parsed.ok
        THEN [threw |-> "SyntaxError", map |-> map, text |-> decoded.text]
        ELSE IF parsed.val.t = "null"
        THEN [threw |-> "TypeError", map |-> map, text |-> decoded.text]
        ELSE [threw |-> "",
              map |-> MapSetAll(map, ObjectEntries(parsed.val)),
              text |-> decoded.text]

KeysOf(entries) == [i \in 1..Len(entries) |-> entries[i].key]

\* The entries of the value a JSON text holds (none if it is no JSON text).
TextEntries(text) ==
    LET parsed == JsonParse(text)
    IN  IF parsed.ok THEN ObjectEntries(parsed.val) ELSE <<>>

\* A loadCore that marks the object dirty when it has changed the Map.
LoadResumeMarksDirty ==
    /\ notified' = FALSE
    /\ loadPc = "reading"
    /\ storage.present
    /\ LET r == LoadCore(data, storage.content)
       IN  /\ data' = r.map
           /\ loadedText' = r.text
           /\ firstSet' =
                 IF r.threw = ""
                 THEN FirstSetOrder(firstSet, KeysOf(TextEntries(r.text)))
                 ELSE firstSet
           /\ lastValue' =
                 IF r.threw = ""
                 THEN Written(lastValue, TextEntries(r.text))
                 ELSE lastValue
           /\ loadPc' = IF r.threw = "" THEN "done" ELSE "failed"
           /\ ret' = IF r.threw = "" THEN Returned(JUndefined)
                     ELSE Threw(r.threw)
           /\ dirtyFlag' = (dirtyFlag \/ (r.threw = "" /\ r.map # data))
    /\ loadedOf' = storedOf
    /\ snaps' = 0
    /\ UNCHANGED <<signals, submitted, tree, storage, instance,
                   snapshotOf, storedOf, setCalls>>

\* storage.read resolves and loadCore runs to its end.
LoadResume ==
    /\ notified' = FALSE
    /\ loadPc = "reading"
    /\ storage.present
    /\ LET r == LoadCore(data, storage.content)
       IN  /\ data' = r.map
           /\ loadedText' = r.text
           /\ firstSet' =
                 IF r.threw = ""
                 THEN FirstSetOrder(firstSet, KeysOf(TextEntries(r.text)))
                 ELSE firstSet
           /\ lastValue' =
                 IF r.threw = ""
                 THEN Written(lastValue, TextEntries(r.text))
                 ELSE lastValue
           /\ loadPc' = IF r.threw = "" THEN "done" ELSE "failed"
           /\ ret' = IF r.threw = "" THEN Returned(JUndefined)
                     ELSE Threw(r.threw)
    /\ loadedOf' = storedOf
    /\ snaps' = 0
    /\ UNCHANGED <<dirtyFlag, signals, submitted, tree, storage, instance,
                   snapshotOf, storedOf, setCalls>>

\* An onConnect that resubmits the pending ops as a change of the object.
OnConnectResubmits(pending) ==
    /\ notified' = TRUE
    /\ ret' = Returned(JUndefined)
    /\ dirtyFlag' = (dirtyFlag \/ pending # <<>>)
    /\ UNCHANGED <<data, signals, submitted, loadPc, tree,
                   storage, instance, snapshotOf, storedOf, loadedText, loadedOf,
                   snaps, setCalls, firstSet, lastValue>>

\* onConnect(pending)
OnConnect(pending) ==
    /\ notified' = TRUE
    /\ ret' = Returned(JUndefined)
    /\ UNCHANGED <<data, dirtyFlag, signals, submitted, loadPc, tree,
                   storage, instance, snapshotOf, storedOf, loadedText, loadedOf,
                   snaps, setCalls, firstSet, lastValue>>

\* registerCore()
RegisterCore ==
    /\ notified' = TRUE
    /\ ret' = Returned(JUndefined)
    /\ UNCHANGED <<data, dirtyFlag, signals, submitted, loadPc, tree,
                   storage, instance, snapshotOf, storedOf, loadedText, loadedOf,
                   snaps, setCalls, firstSet, lastValue>>

\* onDisconnect()
OnDisconnect ==
    /\ notified' = TRUE
    /\ ret' = Returned(JUndefined)
    /\ UNCHANGED <<data, dirtyFlag, signals, submitted, loadPc, tree,
                   storage, instance, snapshotOf, storedOf, loadedText, loadedOf,
                   snaps, setCalls, firstSet, lastValue>>

OpsError == "Summarizable object should not generate any ops."

\* A processCore that applies the message as a set instead of throwing.
ProcessCoreApplies(message, local) ==
    /\ notified' = FALSE
    /\ data' = MapSet(data, KeyA, JNull)
    /\ ret' = Returned(JUndefined)
    /\ UNCHANGED <<dirtyFlag, signals, submitted, loadPc, tree, storage,
                   instance, snapshotOf, storedOf, loadedText, loadedOf,
                   snaps, setCalls, firstSet, lastValue>>

\* processCore(message, local)
ProcessCore(message, local) ==
    /\ notified' = FALSE
    /\ ret' = Threw(OpsError)
    /\ UNCHANGED <<data, dirtyFlag, signals, submitted, loadPc, tree,
                   storage, instance, snapshotOf, storedOf, loadedText, loadedOf,
                   snaps, setCalls, firstSet, lastValue>>

Next ==
    \/ NewObject
    \/ \E key \in Keys : Get(key)
    \/ \E in \in SetInputs : Set(in.key, in.value)
    \/ Snapshot
    \/ Upload
    \/ LoadStart
    \/ LoadReject
    \/ LoadResume
    \/ \E pending \in PendingLists : OnConnect(pending)
    \/ RegisterCore
    \/ OnDisconnect
    \/ \E message \in Messages : \E local \in BOOLEAN :
          ProcessCore(message, local)

\* The object with a storage service that holds what the runtime uploaded.
Spec == Init /\ [][Next]_vars

NextCorrupt ==
    \/ Next
    \/ \E text \in CorruptTexts : Corrupt(ToBase64(Utf8Bytes(text)))
    \/ \E raw \in NotBase64 : Corrupt(raw)

\* The object with a storage service that may hold a blob nobody uploaded.
SpecCorrupt == Init /\ [][NextCorrupt]_vars

\* ---------------------------------------------------------------- claims

AllJsonable(map) == \A i \in 1..Len(map) : IsJsonable(map[i].value)

\* Two Maps hold the same keys with the same values.
SameMapping(m1, m2) ==
    /\ MapKeys(m1) = MapKeys(m2)
    /\ \A key \in MapKeys(m1) : MapGet(m1, key) = MapGet(m2, key)

Contents(t) == t.entries[1].value.contents

\* C1 (round trip): an object with no set call of its own that has loaded
\* the uploaded snapshot of a Map of JSON-representable values holds that
\* Map's keys and values.
C1_RoundTrip ==
    (loadPc = "done" /\ setCalls = 0 /\ AllJsonable(loadedOf))
        => SameMapping(data, loadedOf)

\* C2 (dirty monotonicity): an object is constructed not dirty; every set
\* call leaves it dirty and notifies the runtime; no step of one object
\* turns the dirty flag from true to false.
C2_DirtyMonotone ==
    /\ ~dirtyFlag
    /\ [][/\ NewObject => ~dirtyFlag'
          /\ \A in \in SetInputs :
                Set(in.key, in.value)
                    => (dirtyFlag' /\ signals' = signals + 1)
          /\ (instance' = instance /\ dirtyFlag) => dirtyFlag']_vars

\* A key has been overwritten, a snapshot was taken after it, and the object
\* is dirty.
C2_Witness == dirtyFlag /\ setCalls = 2 /\ Len(data) = 1 /\ snaps > 0

\* C3 (reject foreign mutation): processCore is enabled in every state, and
\* every delivery, local or remote, throws the "should not generate any
\* ops" error and leaves the Map as it was.
C3_RejectForeignOp ==
    /\ [](\A message \in Messages : \A local \in BOOLEAN :
             ENABLED ProcessCore(message, local))
    /\ [][\A message \in Messages : \A local \in BOOLEAN :
             ProcessCore(message, local)
                 => /\ ret'.status = "throw"
                    /\ ret'.error = OpsError
                    /\ data' = data]_vars

\* processCore has thrown on an object that holds entries.
C3_Witness == ret = Threw(OpsError) /\ data # <<>>

\* C4 (idempotent snapshot): a snapshot taken when the Map has not changed
\* since the last snapshot has the same blob contents as that snapshot.
C4_IdempotentSnapshot ==
    [][(snaps > 0 /\ Snapshot) => Contents(tree') = Contents(tree)]_vars

\* Two snapshots of a Map with entries, with a get after the second.
C4_Witness ==
    /\ snaps = 2
    /\ Len(data) > 1
    /\ ret.status = "return"
    /\ ret.value # JUndefined

\* C5 (corrupt load): a load that has ended on an object with no set call,
\* with a stored blob that is no snapshot, has failed and left the Map empty.
C5_CorruptLoadFails ==
    (storage.origin = "corrupt" /\ loadPc \in {"done", "failed"}
     /\ setCalls = 0)
        => (loadPc = "failed" /\ data = <<>>)

\* C6 (reject invalid value): a set call with a value that is not
\* JSON-representable throws and leaves the Map and the dirty flag alone.
C6_RejectInvalidValue ==
    [][\A in \in SetInputs :
          (~IsJsonable(in.value) /\ Set(in.key, in.value))
              => /\ ret'.status = "throw"
                 /\ data' = data
                 /\ dirtyFlag' = dirtyFlag]_vars

\* C7 (snapshot shape): every tree snapshot() has returned has no id and one
\* entry: path "header", mode File, type Blob, encoding "utf-8".
C7_SnapshotShape ==
    tree # NoTree
        => /\ tree.id = "null"
           /\ Len(tree.entries) = 1
           /\ tree.entries[1].path = <<"h", "e", "a", "d", "e", "r">>
           /\ tree.entries[1].mode = "File"
           /\ tree.entries[1].type = "Blob"
           /\ tree.entries[1].value.encoding = "utf-8"

\* A snapshot of a Map with two entries.
C7_Witness == tree # NoTree /\ Len(snapshotOf) = 2

\* C8 (no ops): the object submits no op to the op log, and the runtime has
\* one dirty notification for each set call and nothing else.
C8_NeverSubmitsOp ==
    /\ submitted = <<>>
    /\ setCalls <= signals

\* An object that was loaded, then set, then snapshotted.
C8_Witness ==
    /\ loadPc = "done"
    /\ setCalls > 0
    /\ signals > 0
    /\ snaps > 0

\* C9 (no partial load): on an object with no set call, the Map is empty
\* until loadCore has ended and if it failed, and after it has ended well
\* the Map holds every key of the blob it read.
C9_NoPartialLoad ==
    setCalls = 0
        => /\ loadPc \in {"idle", "reading", "failed"} => data = <<>>
           /\ loadPc = "done"
                 => /\ MapKeys(data) = MapKeys(TextEntries(loadedText))
                    /\ Len(data) = Len(TextEntries(loadedText))

\* A load of a blob of two entries has ended.
C9_Witness == setCalls = 0 /\ loadPc = "done" /\ Len(data) = 2

\* The Maps that hold the entries of map in another order.
Reorderings(map) ==
    LET n == Len(map)
        perms == {f \in [1..n -> 1..n] : \A i, j \in 1..n :
                                             f[i] = f[j] => i = j}
    IN  {[i \in 1..n |-> map[f[i]]] : f \in perms}

\* C10 as claimed (order-insensitive snapshot): a Map that holds the
\* snapshotted Map's entries in any other insertion order has the same blob.
C10_OrderInsensitive ==
    snaps > 0
        => \A other \in Reorderings(data) :
              Contents(SnapshotTree(other)) = Contents(tree)

\* The Map that holds keys in the given order with the values of map.
InOrder(order, map) ==
    [i \in 1..Len(order) |-> Entry(order[i], MapGet(map, order[i]))]

\* Array-index keys, ascending.
RECURSIVE IndexKeysAscending(_)
IndexKeysAscending(keys) ==
    IF keys = {} THEN <<>>
    ELSE LET least == CHOOSE k \in keys :
                         \A j \in keys : TextToNum(k) <= TextToNum(j)
         IN  <<least>> \o IndexKeysAscending(keys \ {least})

\* The order a blob lists keys in, given the order they were first set in:
\* the array indices ascending, then the other keys as first set.
BlobKeyOrder(order) ==
    IndexKeysAscending({order[i] : i \in {j \in 1..Len(order) :
                                              IsArrayIndex(order[j])}})
    \o SelectSeq(order, LAMBDA k : ~IsArrayIndex(k) /\ k # ProtoKey)

\* C10 as amended: the blob is decided by the keys, their values and the
\* order in which the keys were first set on the object: it lists the
\* array-index keys ascending, then the other keys in first-set order.
C10_BlobOfFirstSetOrder ==
    snaps > 0
        => Contents(tree) =
              <<"{">>
              \o JoinProps(SelectSeq(InOrder(BlobKeyOrder(firstSet), data),
                                     LAMBDA p : Serializable(p.value)))
              \o <<"}">>

\* A snapshot of a Map whose keys b and a were first set in that order.
C10_Witness ==
    /\ snaps > 0
    /\ firstSet = <<KeyB, KeyA>>
    /\ MapKeys(data) = {KeyA, KeyB}

\* C11 (load replaces the mapping): when loadCore ends well, the Map holds
\* the entries parsed from the blob and no other, whatever it held before.
C11_LoadReplaces ==
    [][(LoadResume /\ loadPc' = "done")
          => SameMapping(data', TextEntries(loadedText'))]_vars

\* C12 (empty snapshot): snapshot() is enabled on an object that has had no
\* set and no load, returns, and its tree has one entry whose blob is {}.
C12_EmptySnapshot ==
    /\ []((setCalls = 0 /\ loadPc = "idle") => ENABLED Snapshot)
    /\ [][(setCalls = 0 /\ loadPc = "idle" /\ Snapshot)
             => /\ ret'.status = "return"
                /\ Len(tree'.entries) = 1
                /\ Contents(tree') = <<"{", "}">>]_vars

\* The snapshot of an object that has had no set and no load.
C12_Witness ==
    /\ setCalls = 0
    /\ loadPc = "idle"
    /\ snaps = 1
    /\ tree # NoTree
    /\ data = <<>>

\* The value last set or loaded for key on this object (undefined if none).
LastOf(key) ==
    IF \E e \in lastValue : e.key = key
    THEN (CHOOSE e \in lastValue : e.key = key).value
    ELSE JUndefined

\* C13 (get is a pure read): get is enabled in every state for every key,
\* returns the value last set or loaded for the key, or undefined if the key
\* was never set or loaded, and leaves the Map and the dirty flag as they were.
C13_GetPureRead ==
    /\ [](\A key \in Keys : ENABLED Get(key))
    /\ [][\A key \in Keys :
             Get(key) => /\ ret' = Returned(LastOf(key))
                         /\ data' = data
                         /\ dirtyFlag' = dirtyFlag]_vars

\* A get has returned a loaded value on an object with no set call.
C13_Witness ==
    /\ ret = Returned(JNum(3))
    /\ loadPc = "done"
    /\ setCalls = 0
    /\ ~dirtyFlag

\* What a call that is a no-op does: it returns, and the Map and the dirty
\* flag are as they were.
NoOp ==
    /\ ret'.status = "return"
    /\ data' = data
    /\ dirtyFlag' = dirtyFlag

\* C14 (the hooks are no-ops): onConnect with any list of pending ops,
\* onDisconnect and registerCore are enabled in every state, return, and
\* leave the Map and the dirty flag as they were.
C14_HooksAreNoOps ==
    /\ [](/\ \A pending \in PendingLists : ENABLED OnConnect(pending)
          /\ ENABLED OnDisconnect
          /\ ENABLED RegisterCore)
    /\ [][/\ \A pending \in PendingLists : OnConnect(pending) => NoOp
          /\ OnDisconnect => NoOp
          /\ RegisterCore => NoOp]_vars

\* A hook was the last call on a dirty object that holds entries.
C14_Witness ==
    /\ notified
    /\ data # <<>>
    /\ dirtyFlag

\* C15 (snapshot reflects all prior sets): the blob of a snapshot decodes to
\* the keys set or loaded on the object, each with the value last set or
\* loaded for it.
C15_SnapshotReflectsSets ==
    snaps > 0
        => LET decoded == TextEntries(Contents(tree))
           IN  /\ MapKeys(decoded) = {e.key : e \in lastValue}
               /\ \A key \in MapKeys(decoded) :
                     MapGet(decoded, key) = LastOf(key)

\* C16 (set touches only its own key): after set(key, value) the Map holds
\* value for key and, for every other key, what it held before; it has one
\* entry more if it lacked key and as many entries as before if it held key.
C16_SetTouchesOwnKey ==
    [][\A in \in SetInputs :
          Set(in.key, in.value)
              => /\ MapGet(data', in.key) = in.value
                 /\ \A other \in Keys \ {in.key} :
                       MapGet(data', other) = MapGet(data, other)
                 /\ Len(data') =
                       IF in.key \in MapKeys(data) THEN Len(data)
                       ELSE Len(data) + 1]_vars

\* The key a was set and then overwritten.
C16_Witness ==
    /\ setCalls = 2
    /\ data = <<Entry(KeyA, Nested)>>
    /\ snaps = 0

\* C17 (load does not mark the object dirty): no step of loadCore changes
\* the dirty flag or notifies the runtime, and an object that was loaded and
\* has had no set call is not dirty.
C17_LoadNotDirty ==
    /\ []((loadPc = "done" /\ setCalls = 0) => ~dirtyFlag)
    /\ [][(LoadStart \/ LoadReject \/ LoadResume)
             => /\ dirtyFlag' = dirtyFlag
                /\ signals' = signals]_vars

\* An object that loaded two entries after the runtime had two dirty
\* notifications of another object, and is not dirty.
C17_Witness ==
    /\ loadPc = "done"
    /\ setCalls = 0
    /\ Len(data) = 2
    /\ signals = 2
    /\ ~dirtyFlag

\* C18 (snapshot stable across reload): the text a fresh object loads is the
\* blob of the snapshot that was uploaded, and the snapshot the object takes
\* after the load, before any set, has that same text as its blob.
C18_StableAcrossReload ==
    (loadPc = "done" /\ setCalls = 0)
        => /\ loadedText = Contents(SnapshotTree(loadedOf))
           /\ snaps > 0 => Contents(tree) = loadedText

\* A snapshot taken by an object that has loaded two entries and has had no
\* set call.
C18_Witness ==
    /\ loadPc = "done"
    /\ setCalls = 0
    /\ snaps > 0
    /\ Len(TextEntries(Contents(tree))) = 2

====
